---- MODULE Spec2Model ----
(***************************************************************************)
(* A model of torchattack's VNIFGSM attack (src/torchattack/vnifgsm.py).   *)
(*                                                                         *)
(* Tensors are vectors over Elems (one sample of the batch, flattened      *)
(* over channel/height/width, so that the mean over dims (1, 2, 3) is the   *)
(* mean over Elems).  Tensor elements are exact rationals <<num, den>>      *)
(* extended with IEEE NaN, <<0, 0>>: 0/0 is NaN and NaN propagates through  *)
(* every arithmetic operation, sign() and clamp(), as it does in torch.     *)
(* Rounding and overflow of floating point are not modelled.                *)
(*                                                                         *)
(* The Model and the Transform are opaque: each backward pass delivers a    *)
(* gradient chosen from GradChoices, or reaches no input tensor at all.     *)
(***************************************************************************)
EXTENDS Integers, Sequences, FiniteSets, TLC

\* ------------------------------------------------------------------ bounds
NumElems == 2
MaxSteps == 2
MaxN == 1

Elems == 1..NumElems

\* ------------------------------------------------ floating point numbers
\* Python's None (alpha not given, delta.grad not yet created).
None == <<>>

NaN == <<0, 0>>

IsNaN(a) == a[2] = 0

AbsInt(n) == IF n < 0 THEN -n ELSE n

SgnInt(n) == IF n > 0 THEN 1 ELSE IF n < 0 THEN -1 ELSE 0

RECURSIVE GCD(_, _)
GCD(a, b) == IF b = 0 THEN a ELSE GCD(b, a % b)

\* The number n/d, d # 0, in lowest terms with a positive denominator.
Frac(n, d) ==
    LET k == GCD(AbsInt(n), AbsInt(d))
        s == SgnInt(d)
    IN  <<(s * n) \div k, (s * d) \div k>>

R(n) == <<n, 1>>

RAdd(a, b) ==
    IF IsNaN(a) \/ IsNaN(b) THEN NaN
    ELSE Frac(a[1] * b[2] + b[1] * a[2], a[2] * b[2])

RNeg(a) == IF IsNaN(a) THEN NaN ELSE <<-a[1], a[2]>>

RSub(a, b) == RAdd(a, RNeg(b))

RMul(a, b) ==
    IF IsNaN(a) \/ IsNaN(b) THEN NaN
    ELSE Frac(a[1] * b[1], a[2] * b[2])

\* Tensor division: 0/0 and anything involving NaN is NaN.  x/0 with x # 0
\* (an infinity) is written <<+-1, 0>>, which IsNaN absorbs: no reachable
\* division has a zero divisor and a non-zero dividend (see NoInfinity).
RDiv(a, b) ==
    IF IsNaN(a) \/ IsNaN(b) THEN NaN
    ELSE IF b[1] = 0 THEN <<SgnInt(a[1]), 0>>
    ELSE Frac(a[1] * b[2], a[2] * b[1])

RAbs(a) == IF IsNaN(a) THEN NaN ELSE <<AbsInt(a[1]), a[2]>>

\* torch.sign: sign(NaN) is NaN.
RSign(a) == IF IsNaN(a) THEN NaN ELSE <<SgnInt(a[1]), 1>>

\* a <= b; every comparison with NaN is false.
RLeq(a, b) == ~IsNaN(a) /\ ~IsNaN(b) /\ a[1] * b[2] <= b[1] * a[2]

RLt(a, b) == ~IsNaN(a) /\ ~IsNaN(b) /\ a[1] * b[2] < b[1] * a[2]

RMin(a, b) == IF RLeq(a, b) THEN a ELSE b

RMax(a, b) == IF RLeq(a, b) THEN b ELSE a

\* torch.clamp(a, lo, hi) on one element: min(max(a, lo), hi), NaN kept.
RClamp(a, lo, hi) == IF IsNaN(a) THEN NaN ELSE RMin(RMax(a, lo), hi)

\* ---------------------------------------------------------------- tensors
Zeros == [i \in Elems |-> R(0)]

TAdd(s, t) == [i \in Elems |-> RAdd(s[i], t[i])]

TSub(s, t) == [i \in Elems |-> RSub(s[i], t[i])]

TNeg(t) == [i \in Elems |-> RNeg(t[i])]

TScale(c, t) == [i \in Elems |-> RMul(c, t[i])]

TDivScalar(t, c) == [i \in Elems |-> RDiv(t[i], c)]

TSign(t) == [i \in Elems |-> RSign(t[i])]

TAbs(t) == [i \in Elems |-> RAbs(t[i])]

TClamp(t, lo, hi) == [i \in Elems |-> RClamp(t[i], lo, hi)]

RECURSIVE SumTo(_, _)
SumTo(t, k) == IF k = 0 THEN R(0) ELSE RAdd(SumTo(t, k - 1), t[k])

\* torch.mean(t, dim=(1, 2, 3), keepdim=True) of the one sample.
TMean(t) == RDiv(SumTo(t, NumElems), R(NumElems))

HasNaN(t) == \E i \in Elems : IsNaN(t[i])

\* --------------------------------------------------------------- the inputs
\* Configurations VNIFGSM.__init__ may be given (clip_min <= clip_max, eps >= 0).
EpsChoices == {R(0), R(2)}

StepsChoices == 0..MaxSteps

AlphaChoices == {None, R(1), R(3)}

DecayChoices == {R(0), R(1)}

NChoices == 0..MaxN

BetaChoices == {Frac(3, 2)}

ClipChoices == {<<R(0), R(4)>>}

\* Batches within [clip_min, clip_max]: an interior element, the others on clip_max.
ValidBatches == {[i \in Elems |-> IF i = 1 THEN R(1) ELSE R(4)]}

\* A batch with elements outside [clip_min, clip_max] by more than eps.
InvalidBatches == {[i \in Elems |-> IF i = 1 THEN R(7) ELSE R(-3)]}

LabelChoices == {0}

\* Gradients of the cross-entropy loss a backward pass may deliver: all zero,
\* zero in places, and of mixed sign.
GradChoices ==
    { Zeros,
      [i \in Elems |-> IF i = 1 THEN R(1) ELSE R(0)],
      [i \in Elems |-> IF i = 1 THEN R(-1) ELSE R(1)] }

NaNs == [i \in Elems |-> NaN]

\* What the Model's loss gradient can be at the point t: a NaN input may
\* also give a NaN gradient.
GradsAt(t) == GradChoices \cup (IF HasNaN(t) THEN {NaNs} ELSE {})

\* torch.randn_like(x).uniform_(-eps * beta, eps * beta): the ends of the range.
NoiseChoices(eps, beta) ==
    { [i \in Elems |-> RMul(R(s), RMul(eps, beta))] : s \in {-1, 1} }

\* ------------------------------------------------------------------ state
VARIABLES
    self,       \* the attack object's configuration fields
    model,      \* the Model: its parameters and their accumulated .grad
    x, y,       \* the arguments of forward
    g, v,       \* momentum and gradient variance
    delta,      \* delta.data
    deltaGrad,  \* delta.grad (None until a backward pass reaches delta)
    gv_grad,    \* the sum of the neighbours' gradients
    it, nbr,    \* the counters of the outer and the inner loop
    pc,         \* where forward is
    result,     \* what forward returned
    entry,      \* history: self, model, x, y when forward was called
    lookGrad,   \* history: d(look-ahead loss)/d(delta) of this iteration's pass
    nskip,      \* history: outer iterations skipped for a missing gradient
    ncalls      \* history: neighbour forward/backward evaluations so far

vars == <<self, model, x, y, g, v, delta, deltaGrad, gv_grad, it, nbr, pc,
          result, entry, lookGrad, nskip, ncalls>>

\* VNIFGSM.__init__: the fields as given.
Configs ==
    { [eps |-> e, steps |-> s, alpha |-> a, decay |-> d, n |-> k, beta |-> b,
       clip_min |-> c[1], clip_max |-> c[2], targeted |-> t] :
        e \in EpsChoices, s \in StepsChoices, a \in AlphaChoices,
        d \in DecayChoices, k \in NChoices, b \in BetaChoices,
        c \in ClipChoices, t \in BOOLEAN }

\* The Model: its parameters, whether they require grad, and how many backward
\* passes have accumulated into their .grad (0: .grad is None).
Models == { [weight |-> 1, requires_grad |-> r, grad |-> 0] : r \in BOOLEAN }

InitWith(batches) ==
    /\ self \in Configs
    /\ model \in Models
    /\ x \in batches
    /\ y \in LabelChoices
    /\ g = None /\ v = None /\ delta = None /\ deltaGrad = None
    /\ gv_grad = None
    /\ it = 0 /\ nbr = 0
    /\ pc = "idle"
    /\ result = None
    /\ entry = [self |-> self, model |-> model, x |-> x, y |-> y]
    /\ lookGrad = None
    /\ nskip = 0 /\ ncalls = 0

Init == InitWith(ValidBatches \cup InvalidBatches)

InitValid == InitWith(ValidBatches)

\* ------------------------------------------------------ the loop's numerics
\* A variant of LossGrad that leaves the loss unsigned in targeted mode.
LossGrad_Unsigned(raw, targeted) == raw

\* loss = lossfn(outs, y); if self.targeted: loss = -loss. The gradient of the
\* loss that is backpropagated, given the gradient raw of the cross-entropy.
LossGrad(raw, targeted) == IF targeted THEN TNeg(raw) ELSE raw

\* autograd's accumulation into a leaf's .grad.
AccumulateGrad(grad, new) == IF grad = None THEN new ELSE TAdd(grad, new)

\* A backward pass also accumulates into the .grad of the parameters that
\* require grad.
ModelBackward(m) ==
    IF m.requires_grad THEN [m EXCEPT !.grad = @ + 1] ELSE m

\* nes = self.alpha * self.decay * g; x_nes = x + delta + nes
LookAheadPoint(cfg, x_, delta_, g_) ==
    TAdd(TAdd(x_, delta_), TScale(RMul(cfg.alpha, cfg.decay), g_))

\* g = decay * g + (delta_grad + v) / mean(|delta_grad + v|)
MomentumUpdate(decay, g_, delta_grad, v_) ==
    LET a == TAdd(delta_grad, v_)
    IN  TAdd(TScale(decay, g_), TDivScalar(a, TMean(TAbs(a))))

\* v = gv_grad / self.n - delta_grad
VarianceUpdate(gv, n, delta_grad) == TSub(TDivScalar(gv, R(n)), delta_grad)

\* neighbors = delta.data + noise
Neighbors(delta_, noise) == TAdd(delta_, noise)

\* delta.data + self.alpha * g.sign()
StepDelta(delta_, alpha, g_) == TAdd(delta_, TScale(alpha, TSign(g_)))

\* torch.clamp(delta.data, -self.eps, self.eps)
ClampBudget(d, eps) == TClamp(d, RNeg(eps), eps)

\* torch.clamp(x + delta.data, self.clip_min, self.clip_max) - x
ClampRange(d, x_, cmin, cmax) == TSub(TClamp(TAdd(x_, d), cmin, cmax), x_)

DeltaUpdate(cfg, x_, delta_, g_) ==
    ClampRange(ClampBudget(StepDelta(delta_, cfg.alpha, g_), cfg.eps),
               x_, cfg.clip_min, cfg.clip_max)

\* A variant of ZeroGrad that leaves delta.grad as it is.
ZeroGrad_Kept(grad) == grad

\* delta.grad.detach_(); delta.grad.zero_()
ZeroGrad(grad) == Zeros

\* ---------------------------------------------------------------- forward
\* The exceptions forward can end with; pc names the one raised.
Exceptions == {"ZeroDivisionError", "RuntimeError", "TypeError"}

Raised == pc \in Exceptions

\* forward(x, y) up to the loop: g, v and delta are created, and alpha, when
\* not given, is set on the object to eps / steps (a Python float division,
\* which raises ZeroDivisionError for steps = 0).
Begin ==
    /\ pc = "idle"
    /\ g' = Zeros /\ v' = Zeros /\ delta' = Zeros
    /\ IF self.alpha = None
       THEN IF self.steps = 0
            THEN pc' = "ZeroDivisionError" /\ self' = self
            ELSE /\ self' = [self EXCEPT !.alpha = RDiv(self.eps, R(self.steps))]
                 /\ pc' = "loop"
       ELSE pc' = "loop" /\ self' = self
    /\ UNCHANGED <<model, x, y, deltaGrad, gv_grad, it, nbr,
                   result, entry, lookGrad, nskip, ncalls>>

\* One look-ahead pass: the look-ahead point, the loss and loss.backward().
\* The pass either reaches delta, whose .grad accumulates the gradient, or it
\* does not (the Transform or the Model cut the graph): then backward still
\* runs if a parameter requires grad, and raises RuntimeError if nothing does.
LookAhead ==
    /\ pc = "loop" /\ it < self.steps
    /\ \/ \E raw \in GradsAt(LookAheadPoint(self, x, delta, g)) :
            /\ lookGrad' = LossGrad(raw, self.targeted)
            /\ deltaGrad' = AccumulateGrad(deltaGrad, lookGrad')
            /\ model' = ModelBackward(model)
            /\ pc' = "check"
       \/ /\ model.requires_grad
          /\ lookGrad' = None
          /\ deltaGrad' = deltaGrad
          /\ model' = ModelBackward(model)
          /\ pc' = "check"
       \/ /\ ~model.requires_grad
          /\ lookGrad' = None
          /\ pc' = "RuntimeError"
          /\ UNCHANGED <<deltaGrad, model>>
    /\ UNCHANGED <<self, x, y, g, v, delta, gv_grad, it, nbr, result,
                   entry, nskip, ncalls>>

\* A variant of SkipIteration that raises on a missing gradient.
SkipIteration_Raises ==
    /\ pc = "check" /\ deltaGrad = None
    /\ pc' = "RuntimeError"
    /\ UNCHANGED <<self, model, x, y, g, v, delta, deltaGrad, gv_grad, it, nbr,
                   result, entry, lookGrad, nskip, ncalls>>

\* if delta.grad is None: continue
SkipIteration ==
    /\ pc = "check" /\ deltaGrad = None
    /\ it' = it + 1
    /\ nskip' = nskip + 1
    /\ pc' = "loop"
    /\ UNCHANGED <<self, model, x, y, g, v, delta, deltaGrad, gv_grad, nbr,
                   result, entry, lookGrad, ncalls>>

\* The momentum update with delta_grad = delta.grad, and the start of the
\* inner loop.
Momentum ==
    /\ pc = "check" /\ deltaGrad # None
    /\ g' = MomentumUpdate(self.decay, g, deltaGrad, v)
    /\ gv_grad' = Zeros
    /\ nbr' = 0
    /\ pc' = "inner"
    /\ UNCHANGED <<self, model, x, y, v, delta, deltaGrad, it,
                   result, entry, lookGrad, nskip, ncalls>>

\* One neighbour: a fresh leaf delta.data + noise, its loss and backward pass,
\* and gv_grad += neighbors.grad, which raises TypeError when the pass did not
\* reach the neighbour (neighbors.grad is None).
Neighbor ==
    /\ pc = "inner" /\ nbr < self.n
    /\ \/ \E noise \in NoiseChoices(self.eps, self.beta) :
          \E raw \in GradsAt(TAdd(x, Neighbors(delta, noise))) :
            /\ gv_grad' = TAdd(gv_grad, LossGrad(raw, self.targeted))
            /\ model' = ModelBackward(model)
            /\ nbr' = nbr + 1
            /\ ncalls' = ncalls + 1
            /\ pc' = "inner"
       \/ /\ model.requires_grad
          /\ model' = ModelBackward(model)
          /\ ncalls' = ncalls + 1
          /\ pc' = "TypeError"
          /\ UNCHANGED <<gv_grad, nbr>>
       \/ /\ ~model.requires_grad
          /\ pc' = "RuntimeError"
          /\ UNCHANGED <<gv_grad, nbr, model, ncalls>>
    /\ UNCHANGED <<self, x, y, g, v, delta, deltaGrad, it, result, entry,
                   lookGrad, nskip>>

\* The end of an iteration: the variance, the step of delta with its two
\* clamps, and the zeroing of delta.grad.
UpdateDelta ==
    /\ pc = "inner" /\ nbr >= self.n
    /\ v' = VarianceUpdate(gv_grad, self.n, deltaGrad)
    /\ delta' = DeltaUpdate(self, x, delta, g)
    /\ deltaGrad' = ZeroGrad(deltaGrad)
    /\ it' = it + 1
    /\ pc' = "loop"
    /\ UNCHANGED <<self, model, x, y, g, gv_grad, nbr, result,
                   entry, lookGrad, nskip, ncalls>>

\* return x + delta
Return ==
    /\ pc = "loop" /\ it >= self.steps
    /\ result' = TAdd(x, delta)
    /\ pc' = "done"
    /\ UNCHANGED <<self, model, x, y, g, v, delta, deltaGrad, gv_grad, it, nbr, entry, lookGrad, nskip, ncalls>>

Next ==
    \/ Begin
    \/ LookAhead
    \/ SkipIteration
    \/ Momentum
    \/ Neighbor
    \/ UpdateDelta
    \/ Return

Spec == Init /\ [][Next]_vars

\* The calls on batches that lie within [clip_min, clip_max].
SpecValid == InitValid /\ [][Next]_vars

\* ----------------------------------------------------------------- claims
Within(a, lo, hi) == RLeq(lo, a) /\ RLeq(a, hi)

WithinBudget(d, eps) == \A i \in Elems : Within(d[i], RNeg(eps), eps)

Finite(t) == ~HasNaN(t)

\* The configurations the contract is stated for.
ValidConfig == RLeq(R(0), self.eps) /\ RLeq(self.clip_min, self.clip_max)

BatchInRange == \A i \in Elems : Within(x[i], self.clip_min, self.clip_max)

\* An outer iteration has ended (forward is at the head of the loop again).
AfterIteration == pc = "loop" /\ it > 0

\* No division has made an infinity: the only non-finite value is NaN.
NoInfinity ==
    \A t \in {g, v, delta, deltaGrad, gv_grad, result} :
        t # None => \A i \in Elems : t[i][2] = 0 => t[i][1] = 0

BudgetWhenFinite ==
    (pc \in {"loop", "check", "inner", "done"} /\ Finite(delta) /\ BatchInRange)
        => WithinBudget(delta, self.eps)

RangeWhenFinite ==
    (pc = "done" /\ Finite(result) /\ it > nskip) =>
        \A i \in Elems : Within(result[i], self.clip_min, self.clip_max)

\* C3: with steps = 0 forward completes, and returns the input batch exactly.
ZeroStepIdentity ==
    self.steps = 0 => /\ ~Raised
                      /\ pc = "done" => result = x

\* What holds with steps = 0: a call that returns, returns the input batch.
ZeroStepReturn ==
    (self.steps = 0 /\ pc = "done") => result = x

\* C4: forward ends after exactly steps outer iterations, each non-skipped
\* one with exactly n neighbour evaluations, and returns batch + delta.
FixedIterationCount ==
    /\ ~Raised
    /\ pc = "loop" => ncalls = self.n * (it - nskip)
    /\ pc = "done" => /\ it = self.steps
                      /\ ncalls = self.n * (self.steps - nskip)
                      /\ result = TAdd(x, delta)

\* What holds of the counts: a call that returns has run steps iterations.
CountsOnReturn ==
    /\ pc = "loop" => ncalls = self.n * (it - nskip)
    /\ pc = "done" => /\ it = self.steps
                      /\ ncalls = self.n * (self.steps - nskip)
                      /\ result = TAdd(x, delta)

\* C5: after forward returns every configuration field has the value it had
\* before the call.
ConfigPreserved == pc = "done" => self = entry.self

\* What holds of the configuration: every field but alpha is kept.
ConfigButAlpha ==
    [self EXCEPT !.alpha = None] = [entry.self EXCEPT !.alpha = None]

FirstIterationDone == pc = "loop" /\ it = 1 /\ nskip = 0

TwinConfig == [self EXCEPT !.targeted = ~@]

TwinRaw == IF self.targeted THEN TNeg(lookGrad) ELSE lookGrad

TwinG ==
    MomentumUpdate(TwinConfig.decay, Zeros,
                   LossGrad(TwinRaw, TwinConfig.targeted), Zeros)

TwinDelta == DeltaUpdate(TwinConfig, x, Zeros, TwinG)

SignsNegated == \A i \in Elems : RSign(g[i]) = RNeg(RSign(TwinG[i]))

CanDiffer(i) ==
    /\ RSign(g[i]) \in {R(1), R(-1)}
    /\ RLt(R(0), self.alpha) /\ RLt(R(0), self.eps)
    /\ Within(x[i], self.clip_min, self.clip_max)
    /\ RLt(self.clip_min, self.clip_max)

NoExternalMutation ==
    pc = "done" => (x = entry.x /\ y = entry.y /\ model = entry.model)

\* What holds of the frame: batch, labels and the parameters' values are kept.
InputsAndWeightsKept ==
    x = entry.x /\ y = entry.y /\ model.weight = entry.model.weight

\* The gradient of this iteration's look-ahead loss with respect to delta: a
\* pass that did not reach delta contributes nothing.
LookAheadGradient == IF lookGrad = None THEN Zeros ELSE lookGrad

\* C9: wherever an iteration uses delta_grad (delta.grad is not None), it is
\* the gradient of that iteration's look-ahead loss alone.
CleanGradient ==
    (pc \in {"check", "inner"} /\ deltaGrad # None)
        => deltaGrad = LookAheadGradient

\* A later iteration, after an iteration that left a non-zero gradient and
\* after a neighbour pass of its own.
CleanGradientWitness ==
    /\ pc = "inner" /\ nbr > 0
    /\ it - nskip > 0
    /\ lookGrad # None /\ lookGrad # Zeros

BoundedStepWhenFinite ==
    [][(pc = "inner" /\ pc' = "loop" /\ BatchInRange /\ Finite(g)
          /\ RLeq(R(0), self.alpha) /\ RLeq(R(0), self.eps)) =>
          /\ \A i \in Elems :
                Within(RSub(delta'[i], delta[i]), RNeg(self.alpha), self.alpha)
          /\ \A i \in Elems :
                RLeq(RAbs(delta'[i]),
                     RMin(self.eps, RMul(R(it'), self.alpha)))
          /\ entry.self.alpha = None =>
                ClampBudget(StepDelta(delta, self.alpha, g), self.eps)
                    = StepDelta(delta, self.alpha, g)]_vars

====
